---- MODULE Spec2Model ----
(***************************************************************************)
(* The Spotify "now playing" service of spotify-widget                     *)
(* (src/lib/services/spotify.ts): getSpotifyData with its module-level     *)
(* cache slot, token refresh, primary lookup, recently-played fallback and *)
(* outermost catch.                                                        *)
(*                                                                         *)
(* One action per run-to-completion segment of the async function: a       *)
(* segment starts at the call or at the arrival of an awaited upstream     *)
(* answer and runs to the next fetch or to the return.  `fetch` followed   *)
(* by `response.json()` is delivered as one answer (status and body        *)
(* together): no statement between the two awaits reads or writes the      *)
(* cache or issues a request.                                              *)
(*                                                                         *)
(* Spec lets up to MaxCalls invocations overlap; SpecSeq is the same       *)
(* machine with callers that never overlap; SpecAnswered is a burst of     *)
(* overlapping calls whose upstream requests are all eventually answered.  *)
(* Call slots are interchangeable, so a new invocation takes the lowest    *)
(* free one.  `lookup`, `dirty` and `returned` record what happened (what  *)
(* a call found in the slot, whether another call stored meanwhile, how    *)
(* the latest call ended); the code does not read them.                    *)
(*                                                                         *)
(* JavaScript values that may be absent (undefined / null) are written as  *)
(* a sequence of length 0 or 1: Null is <<>>, Some(v) is <<v>>.            *)
(***************************************************************************)
EXTENDS Integers, Sequences, FiniteSets, TLC

VARIABLES
    env,          \* process.env credentials, read once at module load
    cache,        \* the module-level cache slot: Null or Some(CacheEntry)
    now,          \* Date.now(), in milliseconds
    pc,           \* per call slot: where the invocation is suspended
    access_token, \* per call slot: tokenData.access_token held by the call
    reqs,         \* per call slot: upstream requests issued so far, in order
    dirty,        \* per call slot: another call wrote the cache meanwhile
    lookup,       \* what the latest getCachedData call found in the slot
    returned      \* the invocation that returned at the current instant

vars == <<env, cache, now, pc, access_token, reqs, dirty, lookup, returned>>

----------------------------------------------------------------------------
(* Values *)

Null == <<>>
Some(v) == <<v>>
Get(o) == o[1]

\* JavaScript truthiness of an optional string: undefined, null and "" are falsy.
Truthy(o) == o # Null /\ Get(o) # ""

CACHE_DURATION == 15000

\* Bounds of the model.
MaxCalls == 2
MaxTime == 15001

Calls == 1..MaxCalls
ClockSteps == {CACHE_DURATION \div 2, CACHE_DURATION + 1}

SpotifyData(p, u, t, img, a) ==
    [isPlaying |-> p, songUrl |-> u, title |-> t, albumImageUrl |-> img, artist |-> a]

\* Outcome of an evaluation that may throw.
Thrown == [thrown |-> TRUE]
Value(v) == [thrown |-> FALSE, value |-> v]

\* Outcome of an awaited fetch plus response.json().
NetworkError == [rejected |-> TRUE]
Http(status, body) == [rejected |-> FALSE, status |-> status, body |-> body]
BadJson == [parses |-> FALSE]
Json(v) == [parses |-> TRUE, value |-> v]
ResponseOk(resp) == resp.status \in 200..299

Request(to, bearer) == [to |-> to, bearer |-> bearer]

----------------------------------------------------------------------------
(* Pure functions of the service *)

RECURSIVE join(_, _)
\* Array.prototype.join: undefined and null elements are rendered as "".
join(xs, sep) ==
    IF xs = <<>> THEN ""
    ELSE IF Len(xs) = 1 THEN xs[1]
    ELSE xs[1] \o sep \o join(Tail(xs), sep)

\* artist => artist.name over the array; an undefined element makes the read throw.
ArtistNames(artists) ==
    [k \in 1..Len(artists) |->
        IF Get(artists[k]).name = Null THEN "" ELSE Get(Get(artists[k]).name)]

\* track.external_urls?.spotify || null
MapSongUrl(track) ==
    IF track.external_urls = Null THEN Null
    ELSE IF Truthy(Get(track.external_urls).spotify)
         THEN Get(track.external_urls).spotify ELSE Null

\* track.name || "Unknown Track"
MapTitle(track) ==
    IF Truthy(track.name) THEN Get(track.name) ELSE "Unknown Track"

\* track.album?.images[0]?.url || null  (images[0] of an absent list throws)
MapAlbumImageUrl(track) ==
    IF track.album = Null THEN Null
    ELSE LET images == Get(Get(track.album).images) IN
         IF images = <<>> THEN Null
         ELSE IF images[1] = Null THEN Null
         ELSE IF Truthy(Get(images[1]).url) THEN Get(images[1]).url ELSE Null

\* Mutant: only the first artist is named.
MapArtistFirstOnly(track) ==
    IF track.artists = Null THEN "Unknown Artist"
    ELSE LET names == ArtistNames(Get(track.artists)) IN
         IF names # <<>> /\ names[1] # "" THEN names[1] ELSE "Unknown Artist"

\* track.artists?.map(...).join(", ") || "Unknown Artist"
MapArtist(track) ==
    IF track.artists = Null THEN "Unknown Artist"
    ELSE LET joined == join(ArtistNames(Get(track.artists)), ", ") IN
         IF joined # "" THEN joined ELSE "Unknown Artist"

\* The property reads of mapSpotifyData that raise a TypeError.
MapThrows(t) ==
    \/ t = Null
    \/ /\ Get(t).album # Null
       /\ Get(Get(t).album).images = Null
    \/ /\ Get(t).artists # Null
       /\ \E k \in 1..Len(Get(Get(t).artists)) : Get(Get(t).artists)[k] = Null

\* mapSpotifyData(track), with isPlaying spread in front by both callers.
mapSpotifyData(isPlaying, t) ==
    IF MapThrows(t) THEN Thrown
    ELSE Value(SpotifyData(isPlaying, MapSongUrl(Get(t)), MapTitle(Get(t)),
                           MapAlbumImageUrl(Get(t)), MapArtist(Get(t))))

NoRecentTracks ==
    SpotifyData(Some(FALSE), Null, "No Recent Tracks", Null, "No listening history")

RecentUnavailable ==
    SpotifyData(Some(FALSE), Null, "Unable to fetch", Null, "Recent tracks unavailable")

SpotifyUnavailable ==
    SpotifyData(Some(FALSE), Null, "Unable to fetch", Null, "Spotify data unavailable")

\* Mutant: only an absent items field counts as an empty history.
NoItemsAbsentOnly(json) == json.items = Null

\* !json.items || json.items.length === 0
NoItems(json) == json.items = Null \/ Get(json.items) = <<>>

\* The try block of getRecentlyPlayed, given the answer to its fetch.
RecentlyPlayedTry(resp) ==
    IF resp.rejected THEN Thrown
    ELSE IF ~ResponseOk(resp) THEN Thrown
    ELSE IF ~resp.body.parses THEN Thrown
    ELSE IF resp.body.value = Null THEN Thrown
    ELSE LET json == Get(resp.body.value) IN
         IF NoItems(json) THEN Value(NoRecentTracks)
         ELSE LET first == IF json.items = Null \/ Get(json.items) = <<>>
                           THEN Null ELSE Get(json.items)[1]
              IN  IF first = Null THEN Thrown
                  ELSE mapSpotifyData(Some(FALSE), Get(first).track)

\* Mutant: getRecentlyPlayed lets its errors through.
RecentlyPlayedRethrows(outcome) == outcome

\* The catch block of getRecentlyPlayed.
RecentlyPlayedCatch(outcome) ==
    IF outcome.thrown THEN Value(RecentUnavailable) ELSE outcome

getRecentlyPlayed(resp) == RecentlyPlayedCatch(RecentlyPlayedTry(resp))

\* Mutant: the refresh token is not looked at before the request is built.
CredentialsMissingNoRefresh(e) == ~Truthy(e.clientId) \/ ~Truthy(e.clientSecret)

\* !clientId || !clientSecret || !refreshToken
CredentialsMissing(e) ==
    ~Truthy(e.clientId) \/ ~Truthy(e.clientSecret) \/ ~Truthy(e.refreshToken)

\* Mutant: an error reported inside a 200 body is not looked at.
getAccessTokenIgnoresError(resp) ==
    IF resp.rejected THEN Thrown
    ELSE IF ~ResponseOk(resp) THEN Thrown
    ELSE IF ~resp.body.parses THEN Thrown
    ELSE IF resp.body.value = Null THEN Thrown
    ELSE Value(Get(resp.body.value))

\* getAccessToken after its fetch: the token data, or a throw.
getAccessToken(resp) ==
    IF resp.rejected THEN Thrown
    ELSE IF ~ResponseOk(resp) THEN Thrown
    ELSE IF ~resp.body.parses THEN Thrown
    ELSE IF resp.body.value = Null THEN Thrown
    ELSE IF Truthy(Get(resp.body.value).error) THEN Thrown
    ELSE Value(Get(resp.body.value))

\* Mutant: the playing type is not looked at.
NoValidTrackAnyType(data) ==
    \/ data.item = Null
    \/ ~Truthy(Get(data.item).name)
    \/ Get(data.item).artists = Null

\* Mutant: the track's name is not looked at.
NoValidTrackIgnoresName(data) ==
    \/ data.item = Null
    \/ Get(data.item).artists = Null
    \/ data.currently_playing_type # Some("track")

\* Mutant: a paused track is handed to the fallback as well.
NoValidTrackOrPaused(data) ==
    \/ data.item = Null
    \/ ~Truthy(Get(data.item).name)
    \/ Get(data.item).artists = Null
    \/ data.currently_playing_type # Some("track")
    \/ data.is_playing # Some(TRUE)

\* !data.item || !data.item.name || !data.item.artists ||
\* data.currently_playing_type !== "track"
NoValidTrack(data) ==
    \/ data.item = Null
    \/ ~Truthy(Get(data.item).name)
    \/ Get(data.item).artists = Null
    \/ data.currently_playing_type # Some("track")

\* Mutant: an entry expires as soon as its age reaches the window.
ExpiredAtWindow(entry, t) == t - entry.timestamp >= CACHE_DURATION

\* Mutant: an entry is still served one millisecond past the window.
ExpiredAfterGrace(entry, t) == t - entry.timestamp > CACHE_DURATION + 1

\* Mutant: an entry stays fresh for twice the window.
ExpiredLate(entry, t) == t - entry.timestamp > 2 * CACHE_DURATION

\* now - cache.timestamp > CACHE_DURATION
Expired(entry, t) == t - entry.timestamp > CACHE_DURATION

\* Mutant: an expired entry is not served but stays in the slot.
getCachedDataKeepsExpired(c, t) ==
    IF c = Null THEN [data |-> Null, cache |-> c]
    ELSE IF Expired(Get(c), t) THEN [data |-> Null, cache |-> c]
    ELSE [data |-> Some(Get(c).data), cache |-> c]

\* getCachedData: the record served and the slot it leaves behind.
getCachedData(c, t) ==
    IF c = Null THEN [data |-> Null, cache |-> c]
    ELSE IF Expired(Get(c), t) THEN [data |-> Null, cache |-> Null]
    ELSE [data |-> Some(Get(c).data), cache |-> c]

\* Mutant: the entry is stored without the time of the write.
setCachedDataUnstamped(data, t) == Some([data |-> data, timestamp |-> 0])

\* Mutant: the fallback's error record is returned but not stored.
setCachedDataDropsDegraded(data, t) ==
    IF data.title = "Unable to fetch" THEN Null
    ELSE Some([data |-> data, timestamp |-> t])

setCachedData(data, t) == Some([data |-> data, timestamp |-> t])

\* Mutant: the outermost catch rethrows instead of degrading to data.
CatchAllRethrows(c) == Thrown

\* Mutant: the last-resort record carries the fallback lookup's artist text.
CatchAllWrongText(c) ==
    IF c # Null THEN Value(Get(c).data)
    ELSE Value(SpotifyData(Some(FALSE), Null, "Unable to fetch", Null,
                           "Recent tracks unavailable"))

\* The outermost catch of getSpotifyData, reading the slot as it is then.
CatchAll(c) == IF c # Null THEN Value(Get(c).data) ELSE Value(SpotifyUnavailable)

\* Mutant: 204 is not singled out and falls through to the body parse.
NothingPlayingNever(resp) == FALSE

\* nowPlayingResponse.status === 204
NothingPlaying(resp) == resp.status = 204

\* Mutant: only the two authorization statuses are treated as failures.
PrimaryFailedAuthOnly(resp) == resp.status \in {401, 403}

\* The status checks of lines 208-222 that throw.
PrimaryFailed(resp) == resp.status \in {401, 403, 429} \/ ~ResponseOk(resp)

----------------------------------------------------------------------------
(* Upstream behaviours *)

EnvValues == {Null, Some(""), Some("configured")}

\* The token endpoint issues a token of its own to each refresh in progress: the
\* one granted to the invocation in slot i.
TokenNames == <<"tokA", "tokB", "tokC", "tokD">>
IssuedToken(i) == TokenNames[((i - 1) % Len(TokenNames)) + 1]

Artist(name) == Some([name |-> Some(name)])
Image(url) == Some([url |-> Some(url)])
Track(name, artists, urls, album) ==
    [name |-> name, artists |-> artists, external_urls |-> urls, album |-> album]

TrackA ==
    Track(Some("Song A"), Some(<<Artist("Ann"), Artist("Bob")>>),
          Some([spotify |-> Some("https://open.spotify.com/track/a")]),
          Some([images |-> Some(<<Image("https://i.scdn.co/image/a1"),
                                  Image("https://i.scdn.co/image/a2")>>)]))

TrackB ==
    Track(Some("Song B"), Some(<<Artist("Cy")>>),
          Some([spotify |-> Some("https://open.spotify.com/track/b")]),
          Some([images |-> Some(<<>>)]))

\* A track whose optional parts are all absent.
TrackBare == Track(Some(""), Some(<<>>), Null, Null)

\* An album object without an images list: images[0] throws.
TrackNoImages == [TrackA EXCEPT !.album = Some([images |-> Null])]

TokenBodies(i) ==
    {BadJson, Json(Null),
     Json(Some([error |-> Some("invalid_grant"), access_token |-> Null])),
     Json(Some([error |-> Null, access_token |-> Null])),
     Json(Some([error |-> Null, access_token |-> Some("")])),
     Json(Some([error |-> Some("invalid_client"), access_token |-> Some(IssuedToken(i))])),
     Json(Some([error |-> Null, access_token |-> Some(IssuedToken(i))]))}

TokenResponses(i) ==
    {NetworkError, Http(400, BadJson)} \cup {Http(200, b) : b \in TokenBodies(i)}

NowPlaying(item, type, playing) ==
    [item |-> item, currently_playing_type |-> type, is_playing |-> playing]

NowPlayingBodies ==
    {BadJson, Json(Null),
     Json(Some(NowPlaying(Null, Some("ad"), Some(TRUE)))),
     Json(Some(NowPlaying(Null, Some("track"), Some(FALSE)))),
     Json(Some(NowPlaying(Some([TrackA EXCEPT !.name = Null]), Some("track"), Some(TRUE)))),
     Json(Some(NowPlaying(Some([TrackA EXCEPT !.name = Some("")]), Some("track"), Some(TRUE)))),
     Json(Some(NowPlaying(Some([TrackA EXCEPT !.artists = Null]), Some("track"), Some(TRUE)))),
     Json(Some(NowPlaying(Some(TrackA), Some("episode"), Some(TRUE)))),
     Json(Some(NowPlaying(Some(TrackA), Null, Some(TRUE)))),
     Json(Some(NowPlaying(Some(TrackNoImages), Some("track"), Some(TRUE))))}
    \cup {Json(Some(NowPlaying(Some(TrackA), Some("track"), p))) :
            p \in {Some(TRUE), Some(FALSE), Null}}

\* The JSON error object the Web API sends with a failure status: no item in it.
ErrorBody == Json(Some(NowPlaying(Null, Null, Null)))

NowPlayingResponses ==
    {NetworkError, Http(204, BadJson)}
    \cup {Http(s, b) : s \in {401, 403, 429, 500}, b \in {BadJson, ErrorBody}}
    \cup {Http(200, b) : b \in NowPlayingBodies}

RecentBodies ==
    {BadJson, Json(Null),
     Json(Some([items |-> Null])),
     Json(Some([items |-> Some(<<>>)])),
     Json(Some([items |-> Some(<<Null>>)])),
     Json(Some([items |-> Some(<<Some([track |-> Null])>>)])),
     Json(Some([items |-> Some(<<Some([track |-> Some(TrackNoImages)])>>)])),
     Json(Some([items |-> Some(<<Some([track |-> Some(TrackB)])>>)])),
     Json(Some([items |-> Some(<<Some([track |-> Some(TrackBare)])>>)]))}

RecentResponses ==
    {NetworkError, Http(401, BadJson), Http(500, BadJson)}
    \cup {Http(200, b) : b \in RecentBodies}

----------------------------------------------------------------------------
(* State machine *)

InFlight(i) == pc[i] # "idle"

Init ==
    /\ env \in [clientId : EnvValues, clientSecret : EnvValues, refreshToken : EnvValues]
    /\ cache = Null
    /\ now = 0
    /\ pc = [i \in Calls |-> "idle"]
    /\ access_token = [i \in Calls |-> Null]
    /\ reqs = [i \in Calls |-> <<>>]
    /\ dirty = [i \in Calls |-> FALSE]
    /\ lookup = Null
    /\ returned = Null

\* What a call finds in the slot when it begins: the record and its age.
Found(c, t) ==
    IF c = Null THEN Null ELSE Some([data |-> Get(c).data, age |-> t - Get(c).timestamp])

\* Mutant: a call does not store over an entry written while it was in flight.
ReturnFirstWriterWins(i, ret, result, c, rq, tok, st, recent) ==
    /\ pc' = [pc EXCEPT ![i] = "idle"]
    /\ access_token' = [access_token EXCEPT ![i] = Null]
    /\ reqs' = [reqs EXCEPT ![i] = <<>>]
    /\ cache' = (IF dirty[i] THEN cache ELSE c)
    /\ dirty' = [j \in Calls |->
                    IF j = i THEN FALSE
                    ELSE dirty[j] \/ (InFlight(j) /\ ret \in {"recent204", "recentNoTrack", "track"})]
    /\ returned' = Some([ret |-> ret, result |-> result, reqs |-> rq,
                         dirty |-> dirty[i], access_token |-> tok, status |-> st,
                         recent |-> recent])

\* The invocation in slot i ends with `result` (a returned record, or an exception
\* escaping to the caller) through return statement `ret`, having issued requests
\* rq; c is the cache slot it leaves behind, st the status of the primary answer
\* it got, if it got one.
Return(i, ret, result, c, rq, tok, st, recent) ==
    /\ pc' = [pc EXCEPT ![i] = "idle"]
    /\ access_token' = [access_token EXCEPT ![i] = Null]
    /\ reqs' = [reqs EXCEPT ![i] = <<>>]
    /\ cache' = c
    /\ dirty' = [j \in Calls |->
                    IF j = i THEN FALSE
                    ELSE dirty[j] \/ (InFlight(j) /\ ret \in {"recent204", "recentNoTrack", "track"})]
    /\ returned' = Some([ret |-> ret, result |-> result, reqs |-> rq,
                         dirty |-> dirty[i], access_token |-> tok, status |-> st,
                         recent |-> recent])

\* Mutant: the outermost catch serves the entry only while it is fresh.
CatchChecksFreshness(i, c, rq, tok, st, recent) ==
    Return(i, IF c # Null THEN "catchCached" ELSE "catchPlaceholder",
           IF c # Null /\ ~Expired(Get(c), now)
           THEN Value(Get(c).data) ELSE Value(SpotifyUnavailable),
           c, rq, tok, st, recent)

\* Mutant: the outermost catch stores the last-resort record it returns.
CatchStoresPlaceholder(i, c, rq, tok, st, recent) ==
    Return(i, IF c # Null THEN "catchCached" ELSE "catchPlaceholder", CatchAll(c),
           IF c # Null THEN c ELSE setCachedData(SpotifyUnavailable, now),
           rq, tok, st, recent)

\* Mutant: with no entry to fall back on, the outermost catch rethrows.
CatchRethrowsUncached(i, c, rq, tok, st, recent) ==
    Return(i, IF c # Null THEN "catchCached" ELSE "catchPlaceholder",
           IF c # Null THEN Value(Get(c).data) ELSE Thrown, c, rq, tok, st, recent)

\* The outermost catch (lines 237-253).
Catch(i, c, rq, tok, st, recent) ==
    Return(i, IF c # Null THEN "catchCached" ELSE "catchPlaceholder",
           CatchAll(c), c, rq, tok, st, recent)

\* getSpotifyData is called: cache check, then getAccessToken up to its fetch.
Call(i) ==
    /\ pc[i] = "idle"
    /\ \A j \in Calls : j < i => InFlight(j)
    /\ lookup' = Found(cache, now)
    /\ LET got == getCachedData(cache, now) IN
       IF got.data # Null
       THEN Return(i, "hit", Value(Get(got.data)), got.cache, <<>>, Null, Null, Null)
       ELSE IF CredentialsMissing(env)
       THEN Catch(i, got.cache, <<>>, Null, Null, Null)
       ELSE /\ pc' = [pc EXCEPT ![i] = "token"]
            /\ reqs' = [reqs EXCEPT ![i] = <<Request("token", Null)>>]
            /\ cache' = got.cache
            /\ UNCHANGED <<access_token, dirty, returned>>
    /\ UNCHANGED <<env, now>>

\* The token endpoint answers: rest of getAccessToken, lines 193-198.
TokenResponse(i, resp) ==
    /\ pc[i] = "token"
    /\ LET tokenData == getAccessToken(resp) IN
       IF tokenData.thrown
       THEN Catch(i, cache, reqs[i], Null, Null, Null)
       ELSE IF ~Truthy(tokenData.value.access_token)
       THEN Catch(i, cache, reqs[i], tokenData.value.access_token, Null, Null)
       ELSE /\ pc' = [pc EXCEPT ![i] = "nowPlaying"]
            /\ access_token' = [access_token EXCEPT ![i] = tokenData.value.access_token]
            /\ reqs' = [reqs EXCEPT ![i] =
                          Append(@, Request("primary", tokenData.value.access_token))]
            /\ UNCHANGED <<cache, dirty, returned>>
    /\ UNCHANGED <<env, now, lookup>>

\* Mutant: the fallback waits on a promise that nothing settles.
CallRecentlyPlayedUnsettled(i, at) ==
    /\ pc' = [pc EXCEPT ![i] = "unsettled"]
    /\ UNCHANGED <<cache, access_token, reqs, dirty, returned>>

\* Mutant: the recently-played request is sent a second time.
CallRecentlyPlayedRetry(i, at) ==
    /\ pc' = [pc EXCEPT ![i] = at]
    /\ reqs' = [reqs EXCEPT ![i] = Append(Append(@, Request("recent", access_token[i])),
                                          Request("recent", access_token[i]))]
    /\ UNCHANGED <<cache, access_token, dirty, returned>>

\* getRecentlyPlayed is entered from line `at`: its fetch is issued.
CallRecentlyPlayed(i, at) ==
    /\ pc' = [pc EXCEPT ![i] = at]
    /\ reqs' = [reqs EXCEPT ![i] = Append(@, Request("recent", access_token[i]))]
    /\ UNCHANGED <<cache, access_token, dirty, returned>>

\* The currently-playing endpoint answers: lines 201-235.
NowPlayingResponse(i, resp) ==
    /\ pc[i] = "nowPlaying"
    /\ IF resp.rejected
       THEN Catch(i, cache, reqs[i], access_token[i], Null, Null)
       ELSE IF NothingPlaying(resp)
       THEN CallRecentlyPlayed(i, "recent204")
       ELSE IF PrimaryFailed(resp)
       THEN Catch(i, cache, reqs[i], access_token[i], Some(resp.status), Null)
       ELSE IF ~resp.body.parses \/ resp.body.value = Null
       THEN Catch(i, cache, reqs[i], access_token[i], Some(resp.status), Null)
       ELSE LET data == Get(resp.body.value) IN
            IF NoValidTrack(data)
            THEN CallRecentlyPlayed(i, "recentNoTrack")
            ELSE LET result == mapSpotifyData(data.is_playing, data.item) IN
                 IF result.thrown
                 THEN Catch(i, cache, reqs[i], access_token[i], Some(resp.status), Null)
                 ELSE Return(i, "track", result, setCachedData(result.value, now),
                             reqs[i], access_token[i], Some(resp.status), Null)
    /\ UNCHANGED <<env, now, lookup>>

\* The recently-played endpoint answers: rest of getRecentlyPlayed, then
\* setCachedData and return (lines 204-205 or 229-230).
RecentResponse(i, resp) ==
    /\ pc[i] \in {"recent204", "recentNoTrack"}
    /\ LET recentData == getRecentlyPlayed(resp)
           st == Some(IF pc[i] = "recent204" THEN 204 ELSE 200)
       IN
       IF recentData.thrown
       THEN Catch(i, cache, reqs[i], access_token[i], st, Some(resp))
       ELSE Return(i, pc[i], recentData, setCachedData(recentData.value, now),
                   reqs[i], access_token[i], st, Some(resp))
    /\ UNCHANGED <<env, now, lookup>>

\* Time passes.
Tick(d) ==
    /\ now + d <= MaxTime
    /\ now' = now + d
    /\ returned' = Null
    /\ UNCHANGED <<env, cache, pc, access_token, reqs, dirty, lookup>>

Start == \E i \in Calls : Call(i)
TokenAnswers == \E i \in Calls : \E resp \in TokenResponses(i) : TokenResponse(i, resp)
NowPlayingAnswers == \E i \in Calls, resp \in NowPlayingResponses : NowPlayingResponse(i, resp)
RecentAnswers == \E i \in Calls, resp \in RecentResponses : RecentResponse(i, resp)
ClockAdvances == \E d \in ClockSteps : Tick(d)

Next == Start \/ TokenAnswers \/ NowPlayingAnswers \/ RecentAnswers \/ ClockAdvances

Spec == Init /\ [][Next]_vars

\* Callers that never overlap: a call starts only when none is in flight.
StartAlone == (\A j \in Calls : ~InFlight(j)) /\ Start

NextSeq == StartAlone \/ TokenAnswers \/ NowPlayingAnswers \/ RecentAnswers \/ ClockAdvances

SpecSeq == Init /\ [][NextSeq]_vars

\* Every upstream request is eventually answered, by a response or by an error:
\* the continuation of each suspended call is eventually run.
Answer(i) ==
    \/ \E resp \in TokenResponses(i) : TokenResponse(i, resp)
    \/ \E resp \in NowPlayingResponses : NowPlayingResponse(i, resp)
    \/ \E resp \in RecentResponses : RecentResponse(i, resp)

Answered == \A i \in Calls : WF_vars(Answer(i))

\* Calls arriving in a burst, within one reading of the clock: they overlap
\* freely and every one of them is eventually answered.
NextBurst == Start \/ TokenAnswers \/ NowPlayingAnswers \/ RecentAnswers

SpecAnswered == Init /\ [][NextBurst]_vars /\ Answered

----------------------------------------------------------------------------
(* Presentation layer: what each caller makes of the awaited getSpotifyData() *)

\* GET of app/api/spotify/route.ts: the record as JSON, or the 500 error object.
GET(outcome) ==
    IF outcome.thrown
    THEN [status |-> 500, body |-> [error |-> "Failed to fetch Spotify data"]]
    ELSE [status |-> 200, body |-> outcome.value]

\* SpotifyWidgetServer: the data it renders, its own fallback after a throw.
SpotifyWidgetServer(outcome) ==
    IF outcome.thrown
    THEN SpotifyData(Some(FALSE), Null, "Unable to connect", Null, "Spotify unavailable")
    ELSE outcome.value

----------------------------------------------------------------------------
(* Properties *)

NoneInFlight == \A j \in Calls : ~InFlight(j)
Failed == returned # Null /\ Get(returned).ret \in {"catchCached", "catchPlaceholder"}
ToOf(rq) == [k \in 1..Len(rq) |-> rq[k].to]
Fresh == cache # Null /\ now - Get(cache).timestamp <= CACHE_DURATION

RecordFields == {"isPlaying", "songUrl", "title", "albumImageUrl", "artist"}

\* C1: getSpotifyData is total: whatever the upstream did and whatever the cache
\* held, an invocation that ends hands its caller a record; no exception escapes.
C1_Total ==
    returned # Null =>
        /\ ~Get(returned).result.thrown
        /\ DOMAIN Get(returned).result.value = RecordFields

\* A call whose primary lookup failed ended in the outermost catch with a record.
C1_Witness ==
    /\ Failed
    /\ ToOf(Get(returned).reqs) = <<"token", "primary">>
    /\ ~Get(returned).result.thrown

\* C2: a call that starts while the slot holds an entry whose age is within the
\* freshness window returns that entry's record at once, issues no request and
\* leaves the entry (record and timestamp) as it was.
C2_CacheHit ==
    [][\A i \in Calls :
          (Call(i) /\ Fresh) =>
              /\ returned' # Null
              /\ Get(returned').ret = "hit"
              /\ Get(returned').result = Value(Get(cache).data)
              /\ Get(returned').reqs = <<>>
              /\ cache' = cache
              /\ pc' = pc
              /\ reqs' = reqs]_vars

\* A call was served from an entry whose age is exactly the window.
C2_Witness ==
    /\ returned # Null
    /\ Get(returned).ret = "hit"
    /\ cache # Null
    /\ now - Get(cache).timestamp = CACHE_DURATION
    /\ Get(returned).result = Value(Get(cache).data)

\* C3: (non-overlapping callers) a call that found an expired entry and then fails
\* in token acquisition or primary lookup returns the record of that entry, and
\* the entry is still in the slot with its old timestamp.
C3_StaleRescue ==
    (Failed /\ lookup # Null /\ Get(lookup).age > CACHE_DURATION) =>
        /\ Get(returned).result = Value(Get(lookup).data)
        /\ cache # Null
        /\ Get(cache).data = Get(lookup).data
        /\ now - Get(cache).timestamp >= Get(lookup).age

\* C4 as stated: of two sequential calls with no time between them, the second
\* returns the first one's record and issues no request, whatever the first met.
C4_Idempotent ==
    [][\A i \in Calls :
          (Call(i) /\ NoneInFlight /\ returned # Null) =>
              /\ returned' # Null
              /\ Get(returned').result = Get(returned).result
              /\ Get(returned').reqs = <<>>
              /\ pc' = pc
              /\ reqs' = reqs]_vars

\* C4 amended: of two sequential calls with no time between them, where the first
\* was a cache hit or stored its record, the second returns the first one's
\* record and issues no request.
C4_IdempotentAfterStore ==
    [][\A i \in Calls :
          (Call(i) /\ NoneInFlight /\ returned # Null
             /\ Get(returned).ret \in {"hit", "recent204", "recentNoTrack", "track"}) =>
              /\ returned' # Null
              /\ Get(returned').ret = "hit"
              /\ Get(returned').result = Get(returned).result
              /\ Get(returned').reqs = <<>>
              /\ pc' = pc
              /\ reqs' = reqs]_vars

\* A call was served from an entry written at this very instant: it followed,
\* with no time between them, the call that stored the entry.
C4_Witness ==
    /\ returned # Null
    /\ Get(returned).ret = "hit"
    /\ NoneInFlight
    /\ cache # Null
    /\ Get(cache).timestamp = now
    /\ now > 0

Count(rq, to) == Cardinality({k \in 1..Len(rq) : rq[k].to = to})

\* C5: (non-overlapping callers) a call that finds an entry older than the
\* freshness window issues exactly one token request and, if a token comes back,
\* exactly one primary request and at most one fallback request.
C5_ExpiryRefetch ==
    (lookup # Null /\ Get(lookup).age > CACHE_DURATION) =>
        /\ \A i \in Calls : InFlight(i) =>
              /\ Count(reqs[i], "token") = 1
              /\ Count(reqs[i], "primary") = (IF pc[i] = "token" THEN 0 ELSE 1)
              /\ Count(reqs[i], "recent") =
                    (IF pc[i] \in {"recent204", "recentNoTrack"} THEN 1 ELSE 0)
        /\ (NoneInFlight /\ returned # Null) =>
              LET r == Get(returned) IN
              /\ Count(r.reqs, "token") = 1
              /\ Count(r.reqs, "primary") = (IF Truthy(r.access_token) THEN 1 ELSE 0)
              /\ Count(r.reqs, "recent") <= 1
              /\ Count(r.reqs, "recent") <= Count(r.reqs, "primary")

\* A call that found an expired entry went through token, primary and fallback.
C5_Witness ==
    /\ lookup # Null
    /\ Get(lookup).age > CACHE_DURATION
    /\ NoneInFlight
    /\ returned # Null
    /\ ToOf(Get(returned).reqs) = <<"token", "primary", "recent">>

\* C6: a call that fails in token acquisition or primary lookup while no other
\* call wrote the cache during it (so the slot it reads in the catch is the
\* empty one it found or left) returns exactly the last-resort record.
C6_PlaceholderOnFailure ==
    (Failed /\ ~Get(returned).dirty) =>
        /\ Get(returned).ret = "catchPlaceholder"
        /\ Get(returned).result =
              Value([isPlaying |-> Some(FALSE), songUrl |-> Null,
                     title |-> "Unable to fetch", albumImageUrl |-> Null,
                     artist |-> "Spotify data unavailable"])

\* A call found the slot empty, had its token request refused and returned the
\* last-resort record.
C6_Witness ==
    /\ Failed
    /\ lookup = Null
    /\ NoneInFlight
    /\ ToOf(Get(returned).reqs) = <<"token">>
    /\ Get(returned).result.value.artist = "Spotify data unavailable"

\* C7: a primary answer of status 204 makes the call issue the recently-played
\* request, and the call then returns what getRecentlyPlayed makes of the
\* answer to it, with isPlaying false.
C7_FallbackOn204 ==
    /\ [][\A i \in Calls : \A resp \in NowPlayingResponses :
            (pc[i] = "nowPlaying" /\ pc'[i] # "nowPlaying"
               /\ ~resp.rejected /\ resp.status = 204 /\ NowPlayingResponse(i, resp)) =>
                /\ pc'[i] = "recent204"
                /\ reqs'[i] = Append(reqs[i], Request("recent", access_token[i]))]_vars
    /\ [](returned # Null /\ Get(returned).ret = "recent204" =>
            /\ Get(returned).recent # Null
            /\ Get(returned).result = getRecentlyPlayed(Get(Get(returned).recent))
            /\ Get(returned).result.value.isPlaying = Some(FALSE)
            /\ ToOf(Get(returned).reqs) = <<"token", "primary", "recent">>)

\* After a 204 the most recent play was looked up and returned, not playing.
C7_Witness ==
    /\ returned # Null
    /\ Get(returned).ret = "recent204"
    /\ Get(returned).result =
          Value([isPlaying |-> Some(FALSE),
                 songUrl |-> Some("https://open.spotify.com/track/b"),
                 title |-> "Song B", albumImageUrl |-> Null, artist |-> "Cy"])

\* A successful primary answer whose body holds no usable track.
NoTrackBody(resp) ==
    /\ ~resp.rejected
    /\ resp.status = 200
    /\ resp.body.parses
    /\ resp.body.value # Null
    /\ LET d == Get(resp.body.value) IN
       \/ d.item = Null
       \/ Get(d.item).name \in {Null, Some("")}
       \/ Get(d.item).artists = Null
       \/ d.currently_playing_type # Some("track")

\* C8: a successful primary answer without a usable track item (or of a type
\* other than "track") is handled as a 204 is: the same fallback request is
\* issued and nothing else changes, and what the call returns, stores and has
\* requested once the fallback answers does not depend on which of the two led
\* to the fallback.
C8_NoTrackLike204 ==
    /\ [][\A i \in Calls : \A resp \in NowPlayingResponses :
            (pc[i] = "nowPlaying" /\ pc'[i] # "nowPlaying"
               /\ (NoTrackBody(resp) \/ (~resp.rejected /\ resp.status = 204))
               /\ NowPlayingResponse(i, resp)) =>
                /\ pc'[i] = (IF NoTrackBody(resp) THEN "recentNoTrack" ELSE "recent204")
                /\ reqs'[i] = Append(reqs[i], Request("recent", access_token[i]))
                /\ access_token' = access_token
                /\ cache' = cache
                /\ returned' = returned]_vars
    /\ [][\A i \in Calls :
            (pc[i] \in {"recent204", "recentNoTrack"} /\ pc'[i] # pc[i]) =>
                /\ returned' # Null
                /\ Get(returned').recent # Null
                /\ Get(returned').result = getRecentlyPlayed(Get(Get(returned').recent))
                /\ Get(returned').reqs = reqs[i]
                /\ ToOf(reqs[i]) = <<"token", "primary", "recent">>
                /\ cache' = Some([data |-> Get(returned').result.value,
                                  timestamp |-> now])]_vars

\* An ad was playing: the most recent play was looked up, returned and stored.
C8_Witness ==
    /\ returned # Null
    /\ Get(returned).ret = "recentNoTrack"
    /\ Get(returned).result.value.title = "Song B"
    /\ cache = Some([data |-> Get(returned).result.value, timestamp |-> now])

\* The recently-played request failed: no answer, a non-success status, an
\* unparsable or empty body, or a first item without a usable track.
RecentFailure(resp) ==
    \/ resp.rejected
    \/ resp.status \notin 200..299
    \/ ~resp.body.parses
    \/ resp.body.value = Null
    \/ LET items == Get(resp.body.value).items IN
       /\ items # Null
       /\ Get(items) # <<>>
       /\ \/ Get(items)[1] = Null
          \/ Get(Get(items)[1]).track = Null
          \/ LET album == Get(Get(Get(items)[1]).track).album IN
             album # Null /\ Get(album).images = Null

\* C9: whatever the recently-played request met, getRecentlyPlayed hands back a
\* record with isPlaying false (the call returns through the fallback's return
\* statement, not through the outermost catch), and after a failure that record
\* is exactly the "Recent tracks unavailable" one.
C9_FallbackNeverRaises ==
    (returned # Null /\ Get(returned).recent # Null) =>
        /\ Get(returned).ret \in {"recent204", "recentNoTrack"}
        /\ ~Get(returned).result.thrown
        /\ Get(returned).result.value.isPlaying = Some(FALSE)
        /\ RecentFailure(Get(Get(returned).recent)) =>
              Get(returned).result =
                  Value([isPlaying |-> Some(FALSE), songUrl |-> Null,
                         title |-> "Unable to fetch", albumImageUrl |-> Null,
                         artist |-> "Recent tracks unavailable"])

\* The first recent item carried no track: the fallback degraded to its record.
C9_Witness ==
    /\ returned # Null
    /\ Get(returned).recent = Some(Http(200, Json(Some([items |-> Some(<<Some([track |-> Null])>>)]))))
    /\ Get(returned).result.value.artist = "Recent tracks unavailable"

\* A successful recently-played answer with no items.
EmptyHistory(resp) ==
    /\ ~resp.rejected
    /\ resp.status \in 200..299
    /\ resp.body.parses
    /\ resp.body.value # Null
    /\ LET items == Get(resp.body.value).items IN items = Null \/ Get(items) = <<>>

\* C10: a successful recently-played answer whose items list is empty or absent
\* yields exactly the "No Recent Tracks" record.
C10_EmptyHistory ==
    (returned # Null /\ Get(returned).recent # Null
       /\ EmptyHistory(Get(Get(returned).recent))) =>
        Get(returned).result =
            Value([isPlaying |-> Some(FALSE), songUrl |-> Null,
                   title |-> "No Recent Tracks", albumImageUrl |-> Null,
                   artist |-> "No listening history"])

\* The history was an empty list and the call returned the empty-history record.
C10_Witness ==
    /\ returned # Null
    /\ Get(returned).recent = Some(Http(200, Json(Some([items |-> Some(<<>>)]))))
    /\ Get(returned).result.value.title = "No Recent Tracks"

\* The primary request was answered with a status outside 200..299.
PrimaryRefused(resp) == ~resp.rejected /\ resp.status \notin 200..299

\* C11: a primary answer of status 401, 403, 429 or any other non-success status
\* ends the call in the outermost catch: no recently-played request is issued,
\* the cache slot is left as it is, and the call returns the slot's record if
\* the slot holds one and the last-resort record otherwise.
C11_PrimaryFailure ==
    [][\A i \in Calls : \A resp \in NowPlayingResponses :
          (pc[i] = "nowPlaying" /\ pc'[i] # "nowPlaying" /\ PrimaryRefused(resp)
             /\ NowPlayingResponse(i, resp)) =>
              /\ pc'[i] = "idle"
              /\ cache' = cache
              /\ returned' # Null
              /\ Get(returned').status = Some(resp.status)
              /\ ToOf(Get(returned').reqs) = <<"token", "primary">>
              /\ Get(returned').result =
                    (IF cache # Null THEN Value(Get(cache).data)
                     ELSE Value([isPlaying |-> Some(FALSE), songUrl |-> Null,
                                 title |-> "Unable to fetch", albumImageUrl |-> Null,
                                 artist |-> "Spotify data unavailable"]))]_vars

\* The primary request was rate limited while an overlapping call had stored a
\* record: the call returned that record and issued no fallback request.
C11_Witness ==
    /\ returned # Null
    /\ Get(returned).status = Some(429)
    /\ Get(returned).ret = "catchCached"
    /\ ToOf(Get(returned).reqs) = <<"token", "primary">>
    /\ cache # Null
    /\ Get(returned).result = Value(Get(cache).data)

\* A credential that is not set, or set to the empty string.
Unset(v) == v \in {<<>>, <<"">>}

\* C12: when the client id, the client secret or the refresh token is missing,
\* a call that misses the cache ends at once without issuing any upstream
\* request, through the outermost catch: it returns the slot's record if the
\* slot holds one and the last-resort record otherwise.
C12_MissingCredentials ==
    [][\A i \in Calls :
          (Call(i) /\ ~Fresh
             /\ (Unset(env.clientId) \/ Unset(env.clientSecret) \/ Unset(env.refreshToken))) =>
              /\ pc' = pc
              /\ reqs' = reqs
              /\ returned' # Null
              /\ Get(returned').ret \in {"catchCached", "catchPlaceholder"}
              /\ Get(returned').reqs = <<>>
              /\ Get(returned').result =
                    (IF cache' # Null THEN Value(Get(cache').data)
                     ELSE Value([isPlaying |-> Some(FALSE), songUrl |-> Null,
                                 title |-> "Unable to fetch", albumImageUrl |-> Null,
                                 artist |-> "Spotify data unavailable"]))]_vars

\* Only the refresh token is missing: the call returned the last-resort record
\* without having issued a request.
C12_Witness ==
    /\ env.clientId = <<"configured">>
    /\ env.clientSecret = <<"configured">>
    /\ env.refreshToken = <<>>
    /\ returned # Null
    /\ Get(returned).ret = "catchPlaceholder"
    /\ Get(returned).reqs = <<>>
    /\ \A i \in Calls : reqs[i] = <<>>

\* The token answer is successful, reports no error and carries an access token.
TokenGranted(resp) ==
    /\ ~resp.rejected
    /\ resp.status \in 200..299
    /\ resp.body.parses
    /\ resp.body.value # Null
    /\ Get(resp.body.value).error = Null
    /\ Get(resp.body.value).access_token \notin {<<>>, <<"">>}

\* C13: a token answer that is not successful, or a 200 body with an error field
\* or without an access token, ends the call in the outermost catch with the
\* token request as its only request; the primary request is issued only on a
\* token answer that is successful, error-free and carries an access token, and
\* it bears that token.
C13_TokenFailure ==
    /\ [][\A i \in Calls : \A resp \in TokenResponses(i) :
            (pc[i] = "token" /\ pc'[i] # "token" /\ TokenResponse(i, resp)) =>
                IF TokenGranted(resp)
                THEN /\ pc'[i] = "nowPlaying"
                     /\ reqs'[i] = <<[to |-> "token", bearer |-> <<>>],
                                    [to |-> "primary",
                                     bearer |-> Get(resp.body.value).access_token]>>
                ELSE /\ pc'[i] = "idle"
                     /\ cache' = cache
                     /\ returned' # Null
                     /\ Get(returned').ret \in {"catchCached", "catchPlaceholder"}
                     /\ ToOf(Get(returned').reqs) = <<"token">>]_vars
    /\ [](\A i \in Calls :
            /\ Count(reqs[i], "primary") + Count(reqs[i], "recent") > 0 =>
                  access_token[i] \notin {<<>>, <<"">>}
            /\ (returned # Null /\ Len(Get(returned).reqs) > 1) =>
                  Get(returned).access_token \notin {<<>>, <<"">>})

\* The token endpoint answered 200 with an empty access token: the call ended
\* in the outermost catch having issued the token request only.
C13_Witness ==
    /\ Failed
    /\ Get(returned).access_token = <<"">>
    /\ ToOf(Get(returned).reqs) = <<"token">>
    /\ \A i \in Calls : reqs[i] = <<>>

\* The call that just returned did so from a return statement of the try block
\* other than the cache hit.
Completed ==
    returned # Null /\ Get(returned).ret \in {"track", "recent204", "recentNoTrack"}

\* The two placeholder records of the fallback lookup.
Degraded(data) ==
    data.artist \in {"Recent tracks unavailable", "No listening history"}

\* C14: a call that misses the cache and completes without raising (a track from
\* the primary lookup, a track from the fallback, the empty-history record or
\* the fallback's error record) leaves in the slot an entry holding exactly the
\* record it returns, stamped with the time of the write; a fallback placeholder
\* stored this way is served to every call that starts within the freshness
\* window, as real data is.
C14_StoreOnCompletion ==
    /\ [](Completed =>
            /\ ~Get(returned).result.thrown
            /\ cache = <<[data |-> Get(returned).result.value, timestamp |-> now]>>)
    /\ [][\A i \in Calls :
            (Call(i) /\ Fresh /\ Degraded(Get(cache).data)) =>
                /\ returned' # Null
                /\ Get(returned').ret = "hit"
                /\ Get(returned').result.value = Get(cache).data
                /\ Get(returned').reqs = <<>>
                /\ cache' = cache]_vars

\* The fallback's error record, stored CACHE_DURATION ms ago, was served from
\* the cache.
C14_Witness ==
    /\ returned # Null
    /\ Get(returned).ret = "hit"
    /\ Get(returned).result.value.artist = "Recent tracks unavailable"
    /\ cache # Null
    /\ Get(cache).data = Get(returned).result.value
    /\ now - Get(cache).timestamp = CACHE_DURATION

\* A record with every field populated: isPlaying a boolean, title and artist
\* non-empty strings, songUrl and albumImageUrl each a string or null.
Populated(r) ==
    /\ DOMAIN r = RecordFields
    /\ r.isPlaying \in {<<TRUE>>, <<FALSE>>}
    /\ r.title # ""
    /\ r.artist # ""
    /\ Len(r.songUrl) <= 1
    /\ Len(r.albumImageUrl) <= 1

\* C15: every record a call returns and every record in the cache slot is fully
\* populated, whatever the upstream sent, a valid track payload without
\* is_playing, external_urls, album or images included.
C15_FullyPopulated ==
    /\ returned # Null =>
          /\ ~Get(returned).result.thrown
          /\ Populated(Get(returned).result.value)
    /\ cache # Null => Populated(Get(cache).data)

RECURSIVE CommaJoined(_)
\* The names, in their order, with ", " between neighbours.
CommaJoined(names) ==
    IF Len(names) = 1 THEN names[1]
    ELSE CommaJoined(SubSeq(names, 1, Len(names) - 1)) \o ", " \o names[Len(names)]

\* A raw track as upstream documents it: its artists are a list of named
\* artists, and its album, when it has one, has a list of images with URLs.
RawTrack(t) ==
    /\ t.artists # Null
    /\ \A k \in 1..Len(Get(t.artists)) :
          /\ Get(t.artists)[k] # Null
          /\ Get(Get(t.artists)[k]).name \notin {<<>>, <<"">>}
    /\ t.album # Null =>
          /\ Get(t.album).images # Null
          /\ \A k \in 1..Len(Get(Get(t.album).images)) :
                /\ Get(Get(t.album).images)[k] # Null
                /\ Get(Get(Get(t.album).images)[k]).url \notin {<<>>, <<"">>}
    /\ t.external_urls # Null => Get(t.external_urls).spotify \notin {<<>>, <<"">>}

\* Record r is the normalization of raw track t in artist, image and link.
Normalized(t, r) ==
    /\ r.artist =
          (IF Get(t.artists) = <<>> THEN "Unknown Artist"
           ELSE CommaJoined([k \in 1..Len(Get(t.artists)) |->
                                Get(Get(Get(t.artists)[k]).name)]))
    /\ t.album # Null =>
          r.albumImageUrl =
              (IF Get(Get(t.album).images) = <<>> THEN <<>>
               ELSE Get(Get(Get(t.album).images)[1]).url)
    /\ r.songUrl =
          (IF t.external_urls = Null THEN <<>> ELSE Get(t.external_urls).spotify)

\* The first item of a recently-played answer, when it carries a track.
FirstRecentTrack(resp) ==
    IF resp.rejected \/ resp.status \notin 200..299 THEN <<>>
    ELSE IF ~resp.body.parses \/ resp.body.value = <<>> THEN <<>>
    ELSE LET items == Get(resp.body.value).items IN
         IF items = <<>> \/ Get(items) = <<>> THEN <<>>
         ELSE IF Get(items)[1] = <<>> THEN <<>>
         ELSE Get(Get(items)[1]).track

\* C16: the record made from a raw track, on the primary path and on the
\* fallback path alike, has as artist the names of all the track's artists in
\* their order joined with ", " ("Unknown Artist" for an empty list), as
\* albumImageUrl the URL of the album's first image (null for an empty list),
\* and as songUrl the track's web link (null when the track has none).
C16_Normalization ==
    /\ [][\A i \in Calls : \A resp \in NowPlayingResponses :
            (pc[i] = "nowPlaying" /\ pc'[i] = "idle" /\ returned' # Null
               /\ Get(returned').ret = "track" /\ NowPlayingResponse(i, resp)
               /\ RawTrack(Get(Get(resp.body.value).item))) =>
                Normalized(Get(Get(resp.body.value).item), Get(returned').result.value)]_vars
    /\ [](returned # Null /\ Get(returned).recent # Null =>
            LET t == FirstRecentTrack(Get(Get(returned).recent)) IN
            (t # <<>> /\ RawTrack(Get(t))) =>
                Normalized(Get(t), Get(returned).result.value))

\* A track with two artists and two images came back from the primary lookup
\* with both names in order, the first image and its link.
C16_Witness ==
    /\ returned # Null
    /\ Get(returned).ret = "track"
    /\ Get(returned).result.value.artist = "Ann, Bob"
    /\ Get(returned).result.value.albumImageUrl = <<"https://i.scdn.co/image/a1">>
    /\ Get(returned).result.value.songUrl = <<"https://open.spotify.com/track/a">>

\* The upstream sequence a suspended call has issued, by where it is suspended.
OwnSequence(i) ==
    CASE pc[i] = "idle" -> reqs[i] = <<>>
      [] pc[i] = "token" -> reqs[i] = <<[to |-> "token", bearer |-> <<>>]>>
      [] pc[i] = "nowPlaying" ->
            reqs[i] = <<[to |-> "token", bearer |-> <<>>],
                        [to |-> "primary", bearer |-> access_token[i]]>>
      [] OTHER ->
            reqs[i] = <<[to |-> "token", bearer |-> <<>>],
                        [to |-> "primary", bearer |-> access_token[i]],
                        [to |-> "recent", bearer |-> access_token[i]]>>

\* C17: there is no single-flight guard.  A call that misses the cache starts
\* its own token request whether or not another call is already refreshing;
\* every suspended call has issued its own token, primary and fallback requests
\* and none on behalf of another; and a call that completes stores its record
\* over whatever the slot holds then, so the slot afterwards holds the record of
\* the call that wrote last, whichever started first.
C17_NoSingleFlight ==
    /\ [][\A i \in Calls :
            (Call(i) /\ ~Fresh
               /\ ~(Unset(env.clientId) \/ Unset(env.clientSecret) \/ Unset(env.refreshToken))) =>
                /\ pc'[i] = "token"
                /\ reqs' = [reqs EXCEPT ![i] = <<[to |-> "token", bearer |-> <<>>]>>]]_vars
    /\ [](\A i \in Calls : OwnSequence(i))
    /\ [][\A i \in Calls :
            (pc[i] # "idle" /\ pc'[i] = "idle"
               /\ Get(returned').ret \in {"track", "recent204", "recentNoTrack"}) =>
                /\ cache' = <<[data |-> Get(returned').result.value, timestamp |-> now]>>
                /\ Get(returned').reqs = reqs[i]
                /\ \A j \in Calls \ {i} : reqs'[j] = reqs[j] /\ pc'[j] = pc[j]]_vars

\* Two calls missed the cache and overlapped; one stored its record (the latest
\* cache check found it), and the other, still in flight then, has now stored a
\* different record over it.
C17_Witness ==
    /\ returned # Null
    /\ Get(returned).dirty
    /\ Get(returned).ret = "track"
    /\ ToOf(Get(returned).reqs) = <<"token", "primary">>
    /\ cache = <<[data |-> Get(returned).result.value, timestamp |-> now]>>
    /\ lookup # Null
    /\ Get(lookup).data # Get(cache).data

\* rq is token, then primary, then fallback, cut off anywhere: each request at
\* most once and in that order.
InOrder(rq) == \E n \in 0..3 : ToOf(rq) = SubSeq(<<"token", "primary", "recent">>, 1, n)

\* Every request after the token request bears token tok.
Bears(rq, tok) == \A k \in 2..Len(rq) : rq[k].bearer = tok

\* C18: within one invocation the token request comes first, the primary
\* request is issued only in the step that handles the token answer, and the
\* fallback request only in the step that handles a primary answer of 204 or a
\* success body without a valid track; each is issued at most once; a call that
\* misses the cache with credentials set issues exactly one token request; and
\* a call starts holding no token and sends only the token its own token
\* request was answered with.
C18_RequestOrder ==
    /\ [](\A i \in Calls :
            /\ InOrder(reqs[i])
            /\ pc[i] \in {"idle", "token"} => access_token[i] = <<>>
            /\ Bears(reqs[i], access_token[i])
            /\ access_token[i] \in {<<>>, <<IssuedToken(i)>>})
    /\ [](returned # Null =>
            /\ InOrder(Get(returned).reqs)
            /\ Len(Get(returned).reqs) > 1 =>
                  Bears(Get(returned).reqs, Get(returned).access_token)
            /\ (Get(returned).ret # "hit" /\ ~Unset(env.clientId)
                  /\ ~Unset(env.clientSecret) /\ ~Unset(env.refreshToken)) =>
                  Count(Get(returned).reqs, "token") = 1)
    /\ [][\A i \in Calls :
            /\ Count(reqs'[i], "token") > Count(reqs[i], "token") => pc[i] = "idle"
            /\ Count(reqs'[i], "primary") > Count(reqs[i], "primary") => pc[i] = "token"
            /\ Count(reqs'[i], "recent") > Count(reqs[i], "recent") =>
                  /\ pc[i] = "nowPlaying"
                  /\ \E resp \in NowPlayingResponses :
                        /\ NoTrackBody(resp) \/ (~resp.rejected /\ resp.status = 204)
                        /\ NowPlayingResponse(i, resp)]_vars

\* Two calls overlap, each with a token of its own: one has returned after its
\* token, primary and fallback requests, the other waits for its primary answer.
C18_Witness ==
    /\ returned # Null
    /\ ToOf(Get(returned).reqs) = <<"token", "primary", "recent">>
    /\ Get(returned).access_token # <<>>
    /\ Bears(Get(returned).reqs, Get(returned).access_token)
    /\ \E i \in Calls :
          /\ pc[i] = "nowPlaying"
          /\ access_token[i] \notin {<<>>, Get(returned).access_token}

\* A successful primary answer whose body carries a valid track item: item,
\* name and artists present, playing type "track".
ValidTrackBody(resp) ==
    /\ ~resp.rejected
    /\ resp.status \in 200..299
    /\ resp.status # 204
    /\ resp.body.parses
    /\ resp.body.value # Null
    /\ LET d == Get(resp.body.value) IN
       /\ d.item # Null
       /\ Get(d.item).name \notin {<<>>, <<"">>}
       /\ Get(d.item).artists # Null
       /\ d.currently_playing_type = <<"track">>

\* C19: a successful primary answer with a valid track item ends the call in
\* that step with no fallback request; the record returned is the
\* normalization of that item (a raw track), titled with its name, and its
\* isPlaying is the payload's is_playing, so a paused track comes back from the
\* primary path with isPlaying false.
C19_PrimarySuccess ==
    [][\A i \in Calls : \A resp \in NowPlayingResponses :
          (pc[i] = "nowPlaying" /\ pc'[i] # "nowPlaying" /\ ValidTrackBody(resp)
             /\ NowPlayingResponse(i, resp)) =>
              LET d == Get(resp.body.value) IN
              /\ pc'[i] = "idle"
              /\ returned' # Null
              /\ ToOf(Get(returned').reqs) = <<"token", "primary">>
              /\ Get(returned').recent = <<>>
              /\ RawTrack(Get(d.item)) =>
                    /\ Get(returned').ret = "track"
                    /\ Get(returned').result.value.isPlaying = d.is_playing
                    /\ Get(returned').result.value.title = Get(Get(d.item).name)
                    /\ Normalized(Get(d.item), Get(returned').result.value)]_vars

\* A paused track was returned by the primary path, not playing, without a
\* fallback request.
C19_Witness ==
    /\ returned # Null
    /\ Get(returned).ret = "track"
    /\ Get(returned).result.value.isPlaying = <<FALSE>>
    /\ Get(returned).result.value.title = "Song A"
    /\ ToOf(Get(returned).reqs) = <<"token", "primary">>
    /\ Get(returned).recent = <<>>

\* The six ways an invocation ends.
Outcomes == {"hit", "track", "recent204", "recentNoTrack", "catchCached", "catchPlaceholder"}

\* C20: when every upstream request is eventually answered, every invocation
\* eventually ends, and it ends in one step with exactly one outcome: a cache
\* hit, the primary track, the fallback's record or placeholder, or a full
\* failure answered from the slot or with the last-resort record.
C20_Termination ==
    /\ \A i \in Calls : (pc[i] # "idle") ~> (pc[i] = "idle")
    /\ [][\A i \in Calls :
            ((pc[i] # "idle" /\ pc'[i] = "idle") \/ (Call(i) /\ pc'[i] = "idle")) =>
                /\ returned' # Null
                /\ Get(returned').ret \in Outcomes
                /\ Get(returned').ret = "hit" => (pc[i] = "idle" /\ Fresh)
                /\ Get(returned').ret = "track" => Get(returned').status = <<200>>
                /\ Get(returned').ret \in {"recent204", "recentNoTrack"} =>
                      Get(returned').recent # Null
                /\ Get(returned').ret = "catchCached" =>
                      (cache' # Null /\ Get(returned').result.value = Get(cache').data)
                /\ Get(returned').ret = "catchPlaceholder" => cache' = Null]_vars

\* Two calls overlapped and both have ended: the last one got no answer from the
\* currently-playing endpoint and returned the record the other had stored.
C20_Witness ==
    /\ NoneInFlight
    /\ returned # Null
    /\ Get(returned).ret = "catchCached"
    /\ Get(returned).dirty
    /\ Get(returned).status = <<>>
    /\ ToOf(Get(returned).reqs) = <<"token", "primary">>

\* C21: the callers' own error paths are never taken.  Whatever way a call to
\* getSpotifyData ends, the GET route answers 200 with the returned record as
\* its JSON body, never the 500 error object, and SpotifyWidgetServer renders
\* the returned record, never its own "Unable to connect" record.
C21_ErrorPathsUnreachable ==
    returned # Null =>
        LET outcome == Get(returned).result IN
        /\ GET(outcome).status = 200
        /\ GET(outcome).status # 500
        /\ DOMAIN GET(outcome).body = RecordFields
        /\ GET(outcome).body = outcome.value
        /\ SpotifyWidgetServer(outcome) = outcome.value
        /\ SpotifyWidgetServer(outcome).title # "Unable to connect"
        /\ SpotifyWidgetServer(outcome).artist # "Spotify unavailable"

\* Credentials were missing and nothing was cached: the call ended in the
\* outermost catch after no request, and still the route answered 200 and the
\* widget rendered the service's last-resort record.
C21_Witness ==
    /\ returned # Null
    /\ Get(returned).ret = "catchPlaceholder"
    /\ Get(returned).reqs = <<>>
    /\ GET(Get(returned).result) =
          [status |-> 200,
           body |-> [isPlaying |-> <<FALSE>>, songUrl |-> <<>>,
                     title |-> "Unable to fetch", albumImageUrl |-> <<>>,
                     artist |-> "Spotify data unavailable"]]
    /\ SpotifyWidgetServer(Get(returned).result).artist = "Spotify data unavailable"

\* All three credentials are set.
Configured == ~(Unset(env.clientId) \/ Unset(env.clientSecret) \/ Unset(env.refreshToken))

\* The step ends the invocation in slot i in the outermost catch.
EndsInCatch(i) ==
    /\ (pc[i] # "idle" /\ pc'[i] = "idle") \/ (Call(i) /\ pc'[i] = "idle")
    /\ returned' # Null
    /\ Get(returned').ret \in {"catchCached", "catchPlaceholder"}

\* The outermost catch leaves the slot as it is, and the last-resort record is
\* never in the slot.
CatchWritesNothing ==
    /\ [][\A i \in Calls : EndsInCatch(i) => cache' = cache]_vars
    /\ [](cache # Null => Get(cache).data.artist # "Spotify data unavailable")

\* A call has just failed and left the slot empty, and no call is in flight.
FailedEmpty == NoneInFlight /\ Failed /\ cache = Null

\* The call that may start now issues a token request.
NextCallRefreshes ==
    /\ ENABLED Call(1)
    /\ ~ENABLED (Call(1) /\ pc'[1] # "token")
    /\ ~ENABLED (Call(1) /\ reqs'[1] # <<[to |-> "token", bearer |-> <<>>]>>)

\* The call that may start now ends at once in the outermost catch, with the
\* last-resort record and no request.
NextCallFailsAgain ==
    /\ ENABLED Call(1)
    /\ ~ENABLED (Call(1) /\ pc'[1] # "idle")
    /\ ~ENABLED (Call(1) /\ Get(returned').ret # "catchPlaceholder")
    /\ ~ENABLED (Call(1) /\ Get(returned').reqs # <<>>)

\* C22 as stated: the outermost catch writes nothing, the last-resort record is
\* never stored, and the call that follows a failed call which left the slot
\* empty, with no time between them, issues a new token request.
C22_FailureNotCached ==
    /\ CatchWritesNothing
    /\ [](FailedEmpty => NextCallRefreshes)

\* C22 amended: the outermost catch writes nothing, the last-resort record is
\* never stored, and the call that follows a failed call which left the slot
\* empty, with no time between them, misses the cache: with the credentials
\* set it issues a new token request, and without them it fails again having
\* issued no request.
C22_FailureNotCachedConfigured ==
    /\ CatchWritesNothing
    /\ [](FailedEmpty => IF Configured THEN NextCallRefreshes ELSE NextCallFailsAgain)

\* A call failed on its primary request and left the slot empty; at the same
\* instant the next call is waiting for the answer to its own token request.
C22_Witness ==
    /\ Failed
    /\ Get(returned).ret = "catchPlaceholder"
    /\ ToOf(Get(returned).reqs) = <<"token", "primary">>
    /\ cache = Null
    /\ pc[1] = "token"
    /\ \A j \in Calls \ {1} : pc[j] = "idle"

\* The step ends the invocation in slot i with a write of its record.
EndsInStore(i) ==
    /\ pc[i] # "idle"
    /\ pc'[i] = "idle"
    /\ returned' # Null
    /\ Get(returned').ret \in {"track", "recent204", "recentNoTrack"}
    /\ cache' = <<[data |-> Get(returned').result.value, timestamp |-> now]>>

C24_CatchReadsSharedSlot ==
    /\ [][\A i \in Calls :
            EndsInCatch(i) =>
                /\ cache' = cache
                /\ Get(returned').result =
                      (IF cache # Null THEN [thrown |-> FALSE, value |-> Get(cache).data]
                       ELSE [thrown |-> FALSE,
                             value |-> [isPlaying |-> <<FALSE>>, songUrl |-> <<>>,
                                        title |-> "Unable to fetch", albumImageUrl |-> <<>>,
                                        artist |-> "Spotify data unavailable"]])
                /\ Get(returned').ret = "catchCached" <=> cache # Null
                /\ cache # Null => (pc[i] # "idle" /\ dirty[i])]_vars
    /\ [](returned # Null /\ Get(returned).ret = "catchCached" => Get(returned).dirty)

\* Two calls missed the cache together; one stored its record, the clock
\* passed the freshness window, then the other failed on its token request and
\* returned the record stored meanwhile, older than the window by then.
C24_Witness ==
    /\ returned # Null
    /\ Get(returned).ret = "catchCached"
    /\ Get(returned).dirty
    /\ ToOf(Get(returned).reqs) = <<"token">>
    /\ cache # Null
    /\ now - Get(cache).timestamp > CACHE_DURATION
    /\ Get(returned).result.value = Get(cache).data

\* C25: the freshness test is strict.  A call that finds an entry of age up to
\* and including 15000 ms returns its record with no request; a call that
\* finds an entry of age 15001 ms or more does not return from it: the entry is
\* removed and the call goes on to token acquisition.  A record returned by a
\* cache hit was therefore written at most 15000 ms before.
C25_FreshnessBoundary ==
    /\ [][\A i \in Calls :
            (Call(i) /\ cache # Null) =>
                IF now - Get(cache).timestamp <= 15000
                THEN /\ returned' # Null
                     /\ Get(returned').ret = "hit"
                     /\ Get(returned').result.value = Get(cache).data
                     /\ Get(returned').reqs = <<>>
                     /\ pc' = pc
                     /\ reqs' = reqs
                     /\ cache' = cache
                ELSE /\ cache' = <<>>
                     /\ pc'[i] = "token"
                     /\ reqs'[i] = <<[to |-> "token", bearer |-> <<>>]>>
                     /\ returned' = returned]_vars
    /\ [](returned # Null /\ Get(returned).ret = "hit" =>
            /\ cache # Null
            /\ now - Get(cache).timestamp <= 15000
            /\ Get(returned).result.value = Get(cache).data
            /\ lookup # Null
            /\ Get(lookup).age <= 15000)

\* A call found an entry exactly 15001 ms old: it was not served, the slot is
\* empty and the call waits for its token.
C25_Witness ==
    /\ lookup # Null
    /\ Get(lookup).age = 15001
    /\ cache = <<>>
    /\ pc[1] = "token"
    /\ returned = <<>>

\* A successful primary answer carrying an item whose name is absent or blank.
BlankNameBody(resp) ==
    /\ ~resp.rejected
    /\ resp.status = 200
    /\ resp.body.parses
    /\ resp.body.value # Null
    /\ Get(resp.body.value).item # Null
    /\ Get(Get(resp.body.value).item).name \in {<<>>, <<"">>}

\* C26: the title "Unknown Track" comes only from the fallback.  A primary
\* answer whose item has a blank name is handed to the recently-played lookup
\* and yields no record itself; no record returned or stored from the primary
\* track is titled "Unknown Track"; and a recently-played raw track with a
\* blank name yields the title "Unknown Track".
C26_UnknownTrackOnlyFallback ==
    /\ [][\A i \in Calls : \A resp \in NowPlayingResponses :
            (pc[i] = "nowPlaying" /\ pc'[i] # "nowPlaying" /\ BlankNameBody(resp)
               /\ NowPlayingResponse(i, resp)) =>
                /\ pc'[i] = "recentNoTrack"
                /\ reqs'[i] = Append(reqs[i], [to |-> "recent", bearer |-> access_token[i]])
                /\ cache' = cache
                /\ returned' = returned]_vars
    /\ [][\A i \in Calls :
            (EndsInStore(i) /\ Get(returned').result.value.title = "Unknown Track") =>
                /\ Get(returned').ret \in {"recent204", "recentNoTrack"}
                /\ Get(returned').recent # <<>>]_vars
    /\ [](returned # Null /\ Get(returned).ret = "track" =>
            Get(returned).result.value.title \notin {"Unknown Track", ""})
    /\ [](returned # Null /\ Get(returned).recent # Null =>
            LET t == FirstRecentTrack(Get(Get(returned).recent)) IN
            (t # <<>> /\ RawTrack(Get(t)) /\ Get(t).name \in {<<>>, <<"">>}) =>
                Get(returned).result.value.title = "Unknown Track")

\* The most recent play had a blank name: the fallback returned it titled
\* "Unknown Track".
C26_Witness ==
    /\ returned # Null
    /\ Get(returned).ret \in {"recent204", "recentNoTrack"}
    /\ Get(returned).recent # Null
    /\ FirstRecentTrack(Get(Get(returned).recent)) # <<>>
    /\ Get(FirstRecentTrack(Get(Get(returned).recent))).name = <<"">>
    /\ Get(returned).result.value.title = "Unknown Track"

====
